---- MODULE Spec2Model ----
(***************************************************************************)
(* AirtableApp (src/src/universal_mcp_airtable/app.py): eleven operations  *)
(* that build a pyairtable client from the integration's credentials,      *)
(* delegate one call to it and turn every exception into a string.         *)
(*                                                                         *)
(* Python values are records whose first field, py, is the value's class   *)
(* and whose second field, val, is its content.  An invocation is one      *)
(* atomic action (the code is synchronous); what it did is kept in `last`  *)
(* until the caller takes the result (Return).  SpecThreads runs the       *)
(* operations from several host threads at once: there an invocation is    *)
(* three steps (entered, _get_client, the delegate's call) that interleave *)
(* with the other threads' steps and with changes of the credentials.      *)
(***************************************************************************)
EXTENDS Naturals, Sequences, FiniteSets, TLC

VARIABLES app, store, last, threads

vars == <<app, store, last, threads>>

(* ---------------------------------------------------------------- bounds *)
\* Longest records / record_ids sequence handed to a batch operation.
MaxBatch == 2
\* Deepest nesting of AND(...) in a structured filter expression.
MaxFormulaDepth == 1

(* --------------------------------------------------------- Python values *)
PyNone == [py |-> "NoneType"]
PyStr(s) == [py |-> "str", val |-> s]
PyList(xs) == [py |-> "list", val |-> xs]
PyDict(d) == [py |-> "dict", val |-> d]

\* bool(x) for the values the credentials can hold: None and "" are falsy.
Truthy(x) == x.py # "NoneType" /\ ~(x.py = "str" /\ x.val = "")

\* Python's `a or b`.
PyOr(a, b) == IF Truthy(a) THEN a ELSE b

\* dict.get(key): the value, or None when the key is absent.
DictGet(d, key) == IF key \in DOMAIN d THEN PyStr(d[key]) ELSE PyNone

NoExc == [kind |-> "", msg |-> ""]
Exc(kind, msg) == [kind |-> kind, msg |-> msg]

(* ---------------------------------------------------------------- strings *)
StartsWith(s, p) == Len(s) >= Len(p) /\ SubSeq(s, 1, Len(p)) = p
EndsWith(s, p) == Len(s) >= Len(p) /\ SubSeq(s, Len(s) - Len(p) + 1, Len(s)) = p
Contains(s, p) == \E i \in 1..(Len(s) - Len(p) + 1) : SubSeq(s, i, i + Len(p) - 1) = p

(* ------------------------------------------------------------ the adapter *)
\* AirtableApp.__init__: name "airtable" and the integration it was given.
NoIntegration == PyNone
ApiKeyIntegration == [py |-> "ApiKeyIntegration", val |-> "AIRTABLE_API_KEY"]
AirtableApp(integration) == [name |-> "airtable", integration |-> integration]

\* The key names _get_client accepts, in the order it tries them.
CredNames == {"api_key", "apiKey", "API_KEY"}
\* What the credential store can hold under a name: nothing, "" or a key
\* (one key per name, so that the name a key was read from shows).
KeyOf(n) == IF n = "api_key" THEN "patA" ELSE IF n = "apiKey" THEN "patB" ELSE "patC"
Stores == UNION {[S -> {"", "pat"}] : S \in SUBSET CredNames}
StoreOf(f) == [n \in DOMAIN f |-> IF f[n] = "" THEN "" ELSE KeyOf(n)]
CredentialStores == {StoreOf(f) : f \in Stores}

\* pyairtable.Api(api_key): a handle bound to whatever it is given.
Api(api_key) == [py |-> "Api", val |-> api_key]

\* What the world does to one invocation: where it fails (at "credentials":
\* integration.get_credentials() raises; at "data": the delegate's data
\* method raises; "none") and, when it does not fail, the delegate's result.
Env(at, exc, result) == [at |-> at, exc |-> exc, result |-> result]

\* _get_client as a step of an invocation: raised/exc when it raises, the
\* handle when it returns, and how often the credentials were read.
\* Variant of _get_client without the check of self.integration: with no
\* integration, None.get_credentials() is an AttributeError.
_get_client_NoCheck(self, creds, env) ==
    IF ~Truthy(self.integration)
    THEN [raised |-> TRUE,
          exc |-> Exc("AttributeError", "'NoneType' object has no attribute 'get_credentials'"),
          client |-> PyNone, credReads |-> 0, self |-> self]
    ELSE IF env.at = "credentials"
    THEN [raised |-> TRUE, exc |-> env.exc, client |-> PyNone, credReads |-> 1, self |-> self]
    ELSE [raised |-> FALSE, exc |-> NoExc,
          client |-> Api(PyOr(PyOr(DictGet(creds, "api_key"), DictGet(creds, "apiKey")),
                              DictGet(creds, "API_KEY"))),
          credReads |-> 1, self |-> self]

\* Variant of _get_client that keeps the handle it built in self.client and
\* hands that one out from then on.
_get_client_Cached(self, creds, env) ==
    IF ~Truthy(self.integration)
    THEN [raised |-> TRUE,
          exc |-> Exc("ValueError", "Integration is not set for AirtableApp."),
          client |-> PyNone, credReads |-> 0, self |-> self]
    ELSE IF "client" \in DOMAIN self
    THEN [raised |-> FALSE, exc |-> NoExc, client |-> self.client, credReads |-> 0,
          self |-> self]
    ELSE IF env.at = "credentials"
    THEN [raised |-> TRUE, exc |-> env.exc, client |-> PyNone, credReads |-> 1, self |-> self]
    ELSE LET c == Api(PyOr(PyOr(DictGet(creds, "api_key"), DictGet(creds, "apiKey")),
                           DictGet(creds, "API_KEY")))
         IN  [raised |-> FALSE, exc |-> NoExc, client |-> c, credReads |-> 1,
              self |-> ("client" :> c) @@ self]

_get_client(self, creds, env) ==
    IF ~Truthy(self.integration)
    THEN [raised |-> TRUE,
          exc |-> Exc("ValueError", "Integration is not set for AirtableApp."),
          client |-> PyNone, credReads |-> 0, self |-> self]
    ELSE IF env.at = "credentials"
    THEN [raised |-> TRUE, exc |-> env.exc, client |-> PyNone, credReads |-> 1, self |-> self]
    ELSE [raised |-> FALSE, exc |-> NoExc,
          client |-> Api(PyOr(PyOr(DictGet(creds, "api_key"), DictGet(creds, "apiKey")),
                              DictGet(creds, "API_KEY"))),
          credReads |-> 1, self |-> self]

\* One delegate call: the method, its keyword arguments, its positional ones.
Call(fn, pos, kw) == [fn |-> fn, kw |-> kw, pos |-> pos]

\* **options with nothing in it.
NoOptions == [n \in {} |-> PyNone]

\* The exception an operation's except clause gets: what _get_client raised,
\* else what the data call raised, else none.
Caught(g, env) ==
    IF g.raised THEN g.exc ELSE IF env.at = "data" THEN env.exc ELSE NoExc

\* The body every operation shares:
\*     try:    client = self._get_client(); <resolve>; return <data call>
\*     except Exception as e:    return f"...{type(e).__name__} - {e}"
\* g is what _get_client did, resolve the calls that build the base/table
\* handle, data the data call, message the operation's f-string for the
\* exception caught.  The frame keeps what the caller gets (ret, or raised
\* when an exception leaves the operation), the exception caught, the
\* delegate calls made in order, the credential reads, the handle built and
\* the adapter's state afterwards.
Delegate(g, env, resolve, data, message) ==
    IF g.raised
    THEN [ret |-> PyStr(message), raised |-> NoExc, caught |-> g.exc, calls |-> <<>>,
          credReads |-> g.credReads, client |-> g.client, self |-> g.self]
    ELSE IF env.at = "data"
    THEN [ret |-> PyStr(message), raised |-> NoExc, caught |-> env.exc,
          calls |-> resolve \o <<data>>,
          credReads |-> g.credReads, client |-> g.client, self |-> g.self]
    ELSE [ret |-> env.result, raised |-> NoExc, caught |-> NoExc,
          calls |-> resolve \o <<data>>,
          credReads |-> g.credReads, client |-> g.client, self |-> g.self]

\* A frame as it would be had the exception caught left the operation.
Uncaught(f) ==
    IF f.caught # NoExc
    THEN [f EXCEPT !.ret = PyNone, !.raised = f.caught, !.caught = NoExc]
    ELSE f

list_bases(self, creds, env) ==
    LET e == Caught(_get_client(self, creds, env), env)
        Msg == "Error listing bases: " \o e.kind \o " - " \o e.msg
    IN  Delegate(_get_client(self, creds, env), env,
                 <<>>, Call("bases", <<>>, NoOptions), Msg)

list_tables(self, creds, env, base_id) ==
    LET e == Caught(_get_client(self, creds, env), env)
        Msg == "Error listing tables for base '" \o base_id \o "': "
                  \o e.kind \o " - " \o e.msg
    IN  Delegate(_get_client(self, creds, env), env,
                 <<Call("base", <<base_id>>, NoOptions)>>,
                 Call("tables", <<>>, NoOptions), Msg)

\* Variant of get_record that calls _get_client before its try: what
\* _get_client raises leaves the operation.
get_record_ClientOutsideTry(self, creds, env, base_id, table_id_or_name, record_id, options) ==
    LET e == Caught(_get_client(self, creds, env), env)
        Msg == "Error getting record '" \o record_id \o "' from '" \o table_id_or_name
                  \o "' in '" \o base_id \o "': " \o e.kind \o " - " \o e.msg
        g == _get_client(self, creds, env)
        f == Delegate(g, env, <<Call("table", <<base_id, table_id_or_name>>, NoOptions)>>,
                      Call("get", <<record_id>>, options), Msg)
    IN  IF g.raised THEN Uncaught(f) ELSE f

get_record(self, creds, env, base_id, table_id_or_name, record_id, options) ==
    LET e == Caught(_get_client(self, creds, env), env)
        Msg == "Error getting record '" \o record_id \o "' from '" \o table_id_or_name
                  \o "' in '" \o base_id \o "': " \o e.kind \o " - " \o e.msg
    IN  Delegate(_get_client(self, creds, env), env,
                 <<Call("table", <<base_id, table_id_or_name>>, NoOptions)>>,
                 Call("get", <<record_id>>, options), Msg)

(* Structured filter expressions (pyairtable.formulas): Formula(text) and   *)
(* its subclasses Field(name), EQ(lhs, rhs) and AND(components...).         *)
FormulaClasses == {"Formula", "Field", "EQ", "AND"}
Formula(text) == [py |-> "Formula", val |-> text]
Field(name) == [py |-> "Field", val |-> name]
EQ(lhs, rhs) == [py |-> "EQ", val |-> <<lhs, rhs>>]
AND(components) == [py |-> "AND", val |-> components]

\* isinstance(v, Formula)
IsFormula(v) == v.py \in FormulaClasses

\* ", ".join(parts)
RECURSIVE JoinComma(_)
JoinComma(parts) ==
    IF Len(parts) = 0 THEN ""
    ELSE IF Len(parts) = 1 THEN parts[1]
    ELSE parts[1] \o ", " \o JoinComma(Tail(parts))

\* to_formula_str: a Formula is its str(): the text itself, {name} for a
\* Field, lhs=rhs for EQ, AND(a, b) for AND; a str becomes a quoted literal.
RECURSIVE to_formula_str(_)
to_formula_str(v) ==
    CASE v.py = "Formula" -> v.val
      [] v.py = "Field" -> "{" \o v.val \o "}"
      [] v.py = "EQ" -> to_formula_str(v.val[1]) \o "=" \o to_formula_str(v.val[2])
      [] v.py = "AND" ->
            "AND(" \o JoinComma([i \in 1..Len(v.val) |-> to_formula_str(v.val[i])]) \o ")"
      [] v.py = "str" -> "'" \o v.val \o "'"

\* Variant of list_records that forwards options as given.
list_records_NoConversion(self, creds, env, base_id, table_id_or_name, options) ==
    LET e == Caught(_get_client(self, creds, env), env)
        Msg == "Error listing records from '" \o table_id_or_name \o "' in '" \o base_id
                  \o "': " \o e.kind \o " - " \o e.msg
    IN  Delegate(_get_client(self, creds, env), env,
                 <<Call("table", <<base_id, table_id_or_name>>, NoOptions)>>,
                 Call("all", <<>>, options), Msg)

list_records(self, creds, env, base_id, table_id_or_name, options) ==
    LET e == Caught(_get_client(self, creds, env), env)
        Msg == "Error listing records from '" \o table_id_or_name \o "' in '" \o base_id
                  \o "': " \o e.kind \o " - " \o e.msg
        \* if 'formula' in options and isinstance(options['formula'], Formula)
        converted == IF "formula" \in DOMAIN options /\ IsFormula(options["formula"])
                     THEN [options EXCEPT !["formula"] = PyStr(to_formula_str(@))]
                     ELSE options
    IN  Delegate(_get_client(self, creds, env), env,
                 <<Call("table", <<base_id, table_id_or_name>>, NoOptions)>>,
                 Call("all", <<>>, converted), Msg)

\* Variant of create_record that returns the created record's id, a string.
create_record_ReturnsId(self, creds, env, base_id, table_id_or_name, fields, options) ==
    LET e == Caught(_get_client(self, creds, env), env)
        Msg == "Error creating record in '" \o table_id_or_name \o "' in '" \o base_id
                  \o "': " \o e.kind \o " - " \o e.msg
        f == Delegate(_get_client(self, creds, env), env,
                      <<Call("table", <<base_id, table_id_or_name>>, NoOptions)>>,
                      Call("create", <<>>, ("fields" :> PyDict(fields)) @@ options), Msg)
    IN  IF f.caught = NoExc THEN [f EXCEPT !.ret = PyStr(f.ret.val.id)] ELSE f

create_record(self, creds, env, base_id, table_id_or_name, fields, options) ==
    LET e == Caught(_get_client(self, creds, env), env)
        Msg == "Error creating record in '" \o table_id_or_name \o "' in '" \o base_id
                  \o "': " \o e.kind \o " - " \o e.msg
    IN  Delegate(_get_client(self, creds, env), env,
                 <<Call("table", <<base_id, table_id_or_name>>, NoOptions)>>,
                 Call("create", <<>>, ("fields" :> PyDict(fields)) @@ options), Msg)

update_record(self, creds, env, base_id, table_id_or_name, record_id, fields, options) ==
    LET e == Caught(_get_client(self, creds, env), env)
        Msg == "Error updating record '" \o record_id \o "' in '" \o table_id_or_name
                  \o "' in '" \o base_id \o "': " \o e.kind \o " - " \o e.msg
    IN  Delegate(_get_client(self, creds, env), env,
                 <<Call("table", <<base_id, table_id_or_name>>, NoOptions)>>,
                 Call("update", <<record_id>>, ("fields" :> PyDict(fields)) @@ options), Msg)

\* Variant of delete_record whose message names the base where the table
\* belongs and the table where the base belongs.
delete_record_SwappedIds(self, creds, env, base_id, table_id_or_name, record_id) ==
    LET e == Caught(_get_client(self, creds, env), env)
        Msg == "Error deleting record '" \o record_id \o "' from '" \o base_id
                  \o "' in '" \o table_id_or_name \o "': " \o e.kind \o " - " \o e.msg
    IN  Delegate(_get_client(self, creds, env), env,
                 <<Call("table", <<base_id, table_id_or_name>>, NoOptions)>>,
                 Call("delete", <<record_id>>, NoOptions), Msg)

delete_record(self, creds, env, base_id, table_id_or_name, record_id) ==
    LET e == Caught(_get_client(self, creds, env), env)
        Msg == "Error deleting record '" \o record_id \o "' from '" \o table_id_or_name
                  \o "' in '" \o base_id \o "': " \o e.kind \o " - " \o e.msg
    IN  Delegate(_get_client(self, creds, env), env,
                 <<Call("table", <<base_id, table_id_or_name>>, NoOptions)>>,
                 Call("delete", <<record_id>>, NoOptions), Msg)

\* Variant of batch_create_records that sends the records one call each.
batch_create_records_Chunked(self, creds, env, base_id, table_id_or_name, records, options) ==
    LET e == Caught(_get_client(self, creds, env), env)
        Msg == "Error batch creating records in '" \o table_id_or_name \o "' in '"
                  \o base_id \o "': " \o e.kind \o " - " \o e.msg
        f == Delegate(_get_client(self, creds, env), env,
                      <<Call("table", <<base_id, table_id_or_name>>, NoOptions)>>,
                      Call("batch_create", <<records>>, options), Msg)
    IN  IF f.calls = <<>> THEN f
        ELSE [f EXCEPT !.calls = <<f.calls[1]>> \o
                  [i \in 1..Len(records) |-> Call("batch_create", <<<<records[i]>>>>, options)]]

batch_create_records(self, creds, env, base_id, table_id_or_name, records, options) ==
    LET e == Caught(_get_client(self, creds, env), env)
        Msg == "Error batch creating records in '" \o table_id_or_name \o "' in '"
                  \o base_id \o "': " \o e.kind \o " - " \o e.msg
    IN  Delegate(_get_client(self, creds, env), env,
                 <<Call("table", <<base_id, table_id_or_name>>, NoOptions)>>,
                 Call("batch_create", <<records>>, options), Msg)

batch_update_records(self, creds, env, base_id, table_id_or_name, records, options) ==
    LET e == Caught(_get_client(self, creds, env), env)
        Msg == "Error batch updating records in '" \o table_id_or_name \o "' in '"
                  \o base_id \o "': " \o e.kind \o " - " \o e.msg
    IN  Delegate(_get_client(self, creds, env), env,
                 <<Call("table", <<base_id, table_id_or_name>>, NoOptions)>>,
                 Call("batch_update", <<records>>, options), Msg)

\* Variant of batch_delete_records without try/except.
batch_delete_records_NoExcept(self, creds, env, base_id, table_id_or_name, record_ids) ==
    LET e == Caught(_get_client(self, creds, env), env)
        Msg == "Error batch deleting records from '" \o table_id_or_name \o "' in '"
                  \o base_id \o "': " \o e.kind \o " - " \o e.msg
    IN  Uncaught(Delegate(_get_client(self, creds, env), env,
                          <<Call("table", <<base_id, table_id_or_name>>, NoOptions)>>,
                          Call("batch_delete", <<record_ids>>, NoOptions), Msg))

batch_delete_records(self, creds, env, base_id, table_id_or_name, record_ids) ==
    LET e == Caught(_get_client(self, creds, env), env)
        Msg == "Error batch deleting records from '" \o table_id_or_name \o "' in '"
                  \o base_id \o "': " \o e.kind \o " - " \o e.msg
    IN  Delegate(_get_client(self, creds, env), env,
                 <<Call("table", <<base_id, table_id_or_name>>, NoOptions)>>,
                 Call("batch_delete", <<record_ids>>, NoOptions), Msg)

batch_upsert_records(self, creds, env, base_id, table_id_or_name, records, key_fields, options) ==
    LET e == Caught(_get_client(self, creds, env), env)
        Msg == "Error batch upserting records in '" \o table_id_or_name \o "' in '"
                  \o base_id \o "': " \o e.kind \o " - " \o e.msg
    IN  Delegate(_get_client(self, creds, env), env,
                 <<Call("table", <<base_id, table_id_or_name>>, NoOptions)>>,
                 Call("batch_upsert", <<records>>,
                      ("key_fields" :> PyList(key_fields)) @@ options), Msg)

\* list_tools: the operations the host can invoke.
list_tools ==
    <<"list_bases", "list_tables", "get_record", "list_records", "create_record",
      "update_record", "delete_record", "batch_create_records", "batch_update_records",
      "batch_delete_records", "batch_upsert_records">>

(* ----------------------------------------------------------- the inputs *)
BaseIds == {"baseX"}
TableIds == {"Tasks"}
RecordIds == {"rec1", "recNotExist"}
PyBool(b) == [py |-> "bool", val |-> b]

SeqsUpTo(S, n) == UNION {[1..k -> S] : k \in 0..n}

WritableFields == {[Name |-> "Test", Status |-> "Todo"], [Name |-> "Other", Status |-> "Done"]}
UpdateRecords == {[id |-> "rec1", fields |-> [Name |-> "Test", Status |-> "Done"]],
                  [id |-> "recNotExist", fields |-> [Name |-> "Other", Status |-> "Todo"]]}
UpsertRecords == {[fields |-> [Name |-> "Test", Status |-> "Todo"]],
                  [id |-> "rec1", fields |-> [Name |-> "Other", Status |-> "Done"]]}
KeyFieldLists == {<<"Name">>, <<>>}
OptionSets == {NoOptions, "typecast" :> PyBool(TRUE)}

RECURSIVE Formulas(_)
Formulas(depth) ==
    IF depth = 0
    THEN {EQ(Field("Name"), PyStr("Test")), Formula("{Done}")}
    ELSE Formulas(depth - 1)
         \cup {AND(<<a, b>>) : a \in Formulas(depth - 1), b \in Formulas(depth - 1)}

\* list_records' options: a formula (absent, a Formula object, or a string:
\* the serialization of one) and a view (absent or given).
FormulaOptions ==
    {NoOptions}
    \cup {"formula" :> f : f \in Formulas(MaxFormulaDepth)}
    \cup {"formula" :> PyStr(to_formula_str(f)) : f \in Formulas(MaxFormulaDepth)}
ListOptions == {f @@ v : f \in FormulaOptions, v \in {NoOptions, "view" :> PyStr("Grid")}}

\* The failures the world produces: the credential provider's, and the
\* remote service's (authentication, not-found, validation, transport).
CredFailures == {Exc("NotAuthorizedError", "API key not found")}
DataFailures == {Exc("HTTPError", "401 Unauthorized"), Exc("HTTPError", "404 Not Found"),
                 Exc("HTTPError", "422 Unprocessable Entity"),
                 Exc("ConnectionError", "Connection timed out")}

\* What a data method returns when it does not raise.
RecordDict == PyDict([id |-> "rec1", fields |-> [Name |-> "Test", Status |-> "Todo"]])
Results(fn) ==
    CASE fn = "bases" -> {PyList(<<"baseX">>)}
      [] fn = "tables" -> {PyList(<<"Tasks">>)}
      [] fn \in {"get", "create", "update"} -> {RecordDict}
      [] fn = "delete" -> {PyDict([id |-> "rec1", deleted |-> TRUE])}
      [] fn \in {"all", "batch_create", "batch_update"} -> {PyList(<<>>), PyList(<<RecordDict>>)}
      [] fn = "batch_delete" -> {PyList(<<PyDict([id |-> "rec1", deleted |-> TRUE])>>)}
      [] fn = "batch_upsert" ->
            {PyDict([createdRecords |-> <<"rec1">>, updatedRecords |-> <<>>,
                     records |-> <<RecordDict>>])}

Envs(fn) ==
    {Env("none", NoExc, r) : r \in Results(fn)}
    \cup {Env("credentials", e, PyNone) : e \in CredFailures}
    \cup {Env("data", e, PyNone) : e \in DataFailures}

(* ------------------------------------------------------------ the state *)
\* app: the adapter (self).  store: what integration.get_credentials()
\* returns now.  last: the invocation in progress or just finished.
NoCall == [op |-> "none"]
\* threads: what each host thread's invocation has done so far (followed in
\* SpecThreads only).
Threads == {"t1", "t2"}
ThreadIdle == [pc |-> "idle"]
Invocation(op, args, env, frame) ==
    [op |-> op, args |-> args, env |-> env, creds |-> store, before |-> app] @@ frame

Init ==
    /\ app \in {AirtableApp(NoIntegration), AirtableApp(ApiKeyIntegration)}
    /\ store \in CredentialStores
    /\ last = NoCall
    /\ threads = [t \in Threads |-> ThreadIdle]

\* The host invokes one tool at a time.
Idle == last.op = "none"

\* An invocation; frame is what the operation did.
Invoke(op, args, env, frame) ==
    /\ last' = Invocation(op, args, env, frame)
    /\ app' = frame.self
    /\ UNCHANGED <<store, threads>>

ListBases ==
    /\ Idle
    /\ \E env \in Envs("bases") :
        Invoke("list_bases", NoOptions, env, list_bases(app, store, env))

ListTables ==
    /\ Idle
    /\ \E env \in Envs("tables"), b \in BaseIds :
        Invoke("list_tables", [base_id |-> b], env, list_tables(app, store, env, b))

GetRecord ==
    /\ Idle
    /\ \E env \in Envs("get"), b \in BaseIds, t \in TableIds, r \in RecordIds, o \in OptionSets :
        Invoke("get_record", [base_id |-> b, table_id_or_name |-> t, record_id |-> r, options |-> o],
               env, get_record(app, store, env, b, t, r, o))

ListRecords ==
    /\ Idle
    /\ \E env \in Envs("all"), b \in BaseIds, t \in TableIds, o \in ListOptions :
        Invoke("list_records", [base_id |-> b, table_id_or_name |-> t, options |-> o],
               env, list_records(app, store, env, b, t, o))

CreateRecord ==
    /\ Idle
    /\ \E env \in Envs("create"), b \in BaseIds, t \in TableIds, f \in WritableFields,
       o \in OptionSets :
        Invoke("create_record", [base_id |-> b, table_id_or_name |-> t, fields |-> f, options |-> o],
               env, create_record(app, store, env, b, t, f, o))

UpdateRecord ==
    /\ Idle
    /\ \E env \in Envs("update"), b \in BaseIds, t \in TableIds, r \in RecordIds,
       f \in WritableFields, o \in OptionSets :
        Invoke("update_record",
               [base_id |-> b, table_id_or_name |-> t, record_id |-> r, fields |-> f, options |-> o],
               env, update_record(app, store, env, b, t, r, f, o))

DeleteRecord ==
    /\ Idle
    /\ \E env \in Envs("delete"), b \in BaseIds, t \in TableIds, r \in RecordIds :
        Invoke("delete_record", [base_id |-> b, table_id_or_name |-> t, record_id |-> r],
               env, delete_record(app, store, env, b, t, r))

BatchCreateRecords ==
    /\ Idle
    /\ \E env \in Envs("batch_create"), b \in BaseIds, t \in TableIds,
       rs \in SeqsUpTo(WritableFields, MaxBatch), o \in OptionSets :
        Invoke("batch_create_records",
               [base_id |-> b, table_id_or_name |-> t, records |-> rs, options |-> o],
               env, batch_create_records(app, store, env, b, t, rs, o))

BatchUpdateRecords ==
    /\ Idle
    /\ \E env \in Envs("batch_update"), b \in BaseIds, t \in TableIds,
       rs \in SeqsUpTo(UpdateRecords, MaxBatch), o \in OptionSets :
        Invoke("batch_update_records",
               [base_id |-> b, table_id_or_name |-> t, records |-> rs, options |-> o],
               env, batch_update_records(app, store, env, b, t, rs, o))

BatchDeleteRecords ==
    /\ Idle
    /\ \E env \in Envs("batch_delete"), b \in BaseIds, t \in TableIds,
       ids \in SeqsUpTo(RecordIds, MaxBatch) :
        Invoke("batch_delete_records",
               [base_id |-> b, table_id_or_name |-> t, record_ids |-> ids],
               env, batch_delete_records(app, store, env, b, t, ids))

BatchUpsertRecords ==
    /\ Idle
    /\ \E env \in Envs("batch_upsert"), b \in BaseIds, t \in TableIds,
       rs \in SeqsUpTo(UpsertRecords, MaxBatch), k \in KeyFieldLists, o \in OptionSets :
        Invoke("batch_upsert_records",
               [base_id |-> b, table_id_or_name |-> t, records |-> rs, key_fields |-> k,
                options |-> o],
               env, batch_upsert_records(app, store, env, b, t, rs, k, o))

\* The caller takes the result; the invocation's locals are gone.
Return ==
    /\ ~Idle
    /\ last' = NoCall
    /\ UNCHANGED <<app, store, threads>>

\* Between invocations the credential store may come to hold something else.
SetCredentials ==
    /\ Idle
    /\ \E c \in CredentialStores : c # store /\ store' = c
    /\ UNCHANGED <<app, last, threads>>

Next ==
    \/ ListBases \/ ListTables \/ GetRecord \/ ListRecords \/ CreateRecord
    \/ UpdateRecord \/ DeleteRecord \/ BatchCreateRecords \/ BatchUpdateRecords
    \/ BatchDeleteRecords \/ BatchUpsertRecords \/ Return \/ SetCredentials

Spec == Init /\ [][Next]_vars

(* ------------------------------------------- invocations that interleave *)
(* AirtableApp takes no lock, so operations invoked from several threads  *)
(* overlap.  An operation touches what the threads share twice, both in   *)
(* _get_client: it reads self.integration and it reads the credentials;   *)
(* everything after works on its locals and on its own handle.            *)

\* The operation of that name, on the arguments a.
Run(op, self, creds, env, a) ==
    CASE op = "list_bases" -> list_bases(self, creds, env)
      [] op = "list_tables" -> list_tables(self, creds, env, a.base_id)
      [] op = "get_record" ->
            get_record(self, creds, env, a.base_id, a.table_id_or_name, a.record_id, a.options)
      [] op = "list_records" ->
            list_records(self, creds, env, a.base_id, a.table_id_or_name, a.options)
      [] op = "create_record" ->
            create_record(self, creds, env, a.base_id, a.table_id_or_name, a.fields, a.options)
      [] op = "update_record" ->
            update_record(self, creds, env, a.base_id, a.table_id_or_name, a.record_id,
                          a.fields, a.options)
      [] op = "delete_record" ->
            delete_record(self, creds, env, a.base_id, a.table_id_or_name, a.record_id)
      [] op = "batch_create_records" ->
            batch_create_records(self, creds, env, a.base_id, a.table_id_or_name, a.records,
                                 a.options)
      [] op = "batch_update_records" ->
            batch_update_records(self, creds, env, a.base_id, a.table_id_or_name, a.records,
                                 a.options)
      [] op = "batch_delete_records" ->
            batch_delete_records(self, creds, env, a.base_id, a.table_id_or_name, a.record_ids)
      [] op = "batch_upsert_records" ->
            batch_upsert_records(self, creds, env, a.base_id, a.table_id_or_name, a.records,
                                 a.key_fields, a.options)

\* The data method each operation calls.
DataMethod(op) ==
    CASE op = "list_bases" -> "bases"
      [] op = "list_tables" -> "tables"
      [] op = "get_record" -> "get"
      [] op = "list_records" -> "all"
      [] op = "create_record" -> "create"
      [] op = "update_record" -> "update"
      [] op = "delete_record" -> "delete"
      [] op = "batch_create_records" -> "batch_create"
      [] op = "batch_update_records" -> "batch_update"
      [] op = "batch_delete_records" -> "batch_delete"
      [] op = "batch_upsert_records" -> "batch_upsert"

\* The arguments the threads invoke each operation with.
ThreadArgs(op) ==
    LET bt == [base_id |-> "baseX", table_id_or_name |-> "Tasks"]
        typecast == "typecast" :> PyBool(TRUE)
        rec == [Name |-> "Test", Status |-> "Todo"]
    IN  CASE op = "list_bases" -> NoOptions
          [] op = "list_tables" -> [base_id |-> "baseX"]
          [] op = "get_record" -> bt @@ [record_id |-> "rec1", options |-> NoOptions]
          [] op = "list_records" ->
                bt @@ [options |-> "formula" :> EQ(Field("Name"), PyStr("Test"))]
          [] op = "create_record" -> bt @@ [fields |-> rec, options |-> typecast]
          [] op = "update_record" ->
                bt @@ [record_id |-> "rec1", fields |-> rec, options |-> NoOptions]
          [] op = "delete_record" -> bt @@ [record_id |-> "recNotExist"]
          [] op = "batch_create_records" -> bt @@ [records |-> <<rec, rec>>, options |-> NoOptions]
          [] op = "batch_update_records" ->
                bt @@ [records |-> <<[id |-> "rec1", fields |-> rec]>>, options |-> typecast]
          [] op = "batch_delete_records" -> bt @@ [record_ids |-> <<"rec1", "recNotExist">>]
          [] op = "batch_upsert_records" ->
                bt @@ [records |-> <<[fields |-> rec]>>, key_fields |-> <<"Name">>,
                       options |-> NoOptions]

\* What the credential store holds while the threads run.
ThreadStores == {NoOptions, [api_key |-> "patA"], [apiKey |-> "patB", API_KEY |-> "patC"]}
\* What the delegate's data method does to a thread's call.
ThreadEnvs(fn) ==
    {Env("none", NoExc, CHOOSE r \in Results(fn) : TRUE),
     Env("data", Exc("HTTPError", "404 Not Found"), PyNone),
     Env("data", Exc("ConnectionError", "Connection timed out"), PyNone)}
\* get_credentials() returned, and the data call is still to come.
Pending == Env("none", NoExc, PyNone)

InitThreads ==
    /\ app \in {AirtableApp(NoIntegration), AirtableApp(ApiKeyIntegration)}
    /\ store \in ThreadStores
    /\ last = NoCall
    /\ threads = [t \in Threads |-> ThreadIdle]

\* A thread invokes an operation: the call is entered, nothing is read yet.
Enter(t) ==
    /\ threads[t].pc = "idle"
    /\ \E i \in DOMAIN list_tools :
          threads' = [threads EXCEPT ![t] = [pc |-> "entered", op |-> list_tools[i],
                                             args |-> ThreadArgs(list_tools[i])]]
    /\ UNCHANGED <<app, store, last>>

\* The thread's _get_client runs, on the adapter and the credentials as they
\* are now.  When it raises, the operation's except clause ends the call.
GetClient(t) ==
    /\ threads[t].pc = "entered"
    /\ \E env \in {Pending} \cup {Env("credentials", e, PyNone) : e \in CredFailures} :
          LET f == threads[t]
              g == _get_client(app, store, env)
              seen == [op |-> f.op, args |-> f.args, before |-> app, creds |-> store,
                       env |-> env]
          IN  /\ app' = g.self
              /\ threads' = [threads EXCEPT ![t] =
                     IF g.raised
                     THEN [pc |-> "done"] @@ seen @@ Run(f.op, app, store, env, f.args)
                     ELSE [pc |-> "calling", client |-> g.client, credReads |-> g.credReads,
                           self |-> g.self] @@ seen]
    /\ UNCHANGED <<store, last>>

\* The thread's delegate call is made and answered; the operation returns
\* what its body gives on what _get_client read.
CallDelegate(t) ==
    /\ threads[t].pc = "calling"
    /\ \E env \in ThreadEnvs(DataMethod(threads[t].op)) :
          LET f == threads[t]
              done == Run(f.op, f.before, f.creds, env, f.args)
          IN  threads' = [threads EXCEPT ![t] =
                  [pc |-> "done", op |-> f.op, args |-> f.args, before |-> f.before,
                   creds |-> f.creds, env |-> env]
                  @@ [done EXCEPT !.client = f.client, !.credReads = f.credReads,
                                  !.self = f.self]]
    /\ UNCHANGED <<app, store, last>>

\* The thread's caller takes the result.
ThreadReturn(t) ==
    /\ threads[t].pc = "done"
    /\ threads' = [threads EXCEPT ![t] = ThreadIdle]
    /\ UNCHANGED <<app, store, last>>

\* The credential store comes to hold something else, at any moment.
ChangeCredentials ==
    /\ \E c \in ThreadStores : c # store /\ store' = c
    /\ UNCHANGED <<app, last, threads>>

NextThreads ==
    \/ \E t \in Threads : Enter(t)
    \/ \E t \in Threads : GetClient(t)
    \/ \E t \in Threads : CallDelegate(t)
    \/ \E t \in Threads : ThreadReturn(t)
    \/ ChangeCredentials

SpecThreads == InitThreads /\ [][NextThreads]_vars

(* ================================================================ claims *)
Done == last.op # "none"
\* The adapter had an integration when the invocation began.
HadIntegration == Truthy(last.before.integration)
\* The delegate's data method was called and raised.
DelegateRaised == Done /\ HadIntegration /\ last.env.at = "data"
\* A handle was obtained and the delegate's data method returned.
DelegateReturned == Done /\ HadIntegration /\ last.env.at = "none"

\* C1: in each operation, a failure raised by the delegate's data method does
\* not leave the operation: the operation returns a string that contains the
\* exception's kind name and its message.
C1_DelegateFailureReturned ==
    DelegateRaised =>
        /\ last.raised = NoExc
        /\ last.ret.py = "str"
        /\ Contains(last.ret.val, last.env.exc.kind)
        /\ Contains(last.ret.val, last.env.exc.msg)

C1_Witness ==
    /\ DelegateRaised
    /\ last.op = "batch_delete_records"
    /\ last.env.exc = Exc("HTTPError", "404 Not Found")
    /\ last.ret.py = "str"

\* C2 as stated: with no integration, an operation raises the configuration
\* error instead of returning a string, and that is the only failure that is
\* raised; every other failure comes back as a string.
C2_ConfigErrorPropagates ==
    Done =>
        IF ~HadIntegration
        THEN last.raised.kind = "ValueError" /\ last.ret.py # "str"
        ELSE last.raised = NoExc /\ (last.caught # NoExc => last.ret.py = "str")

\* C2 as amended: with no integration, an operation returns the error string
\* naming ValueError and "Integration is not set for AirtableApp."; no
\* failure category leaves an operation as a raised exception: whatever was
\* caught (configuration, authentication, not-found, validation, transport)
\* comes back as a string.
C2_ConfigErrorReturned ==
    Done =>
        /\ last.raised = NoExc
        /\ last.caught # NoExc => last.ret.py = "str"
        /\ ~HadIntegration =>
              /\ last.caught = Exc("ValueError", "Integration is not set for AirtableApp.")
              /\ last.ret.py = "str"
              /\ Contains(last.ret.val, "ValueError")
              /\ Contains(last.ret.val, "Integration is not set for AirtableApp.")

C2_Witness ==
    /\ Done
    /\ ~HadIntegration
    /\ last.op = "list_bases"
    /\ last.ret = PyStr("Error listing bases: ValueError - Integration is not set for AirtableApp.")

\* No accepted key name holds a usable key: each is absent or empty.
NoUsableKey(creds) == \A n \in CredNames : n \notin DOMAIN creds \/ creds[n] = ""

\* C3: when the credentials read hold no usable key under api_key, apiKey or
\* API_KEY, _get_client fails with an AuthenticationError and produces no
\* client handle.
C3_NoUsableKeyRaises ==
    (Done /\ HadIntegration /\ last.env.at # "credentials" /\ NoUsableKey(last.creds)) =>
        /\ last.client = PyNone
        /\ last.caught.kind = "AuthenticationError"

\* C4: with no integration, _get_client raises the configuration error, the
\* credentials are not read and no delegate call (client.bases, client.base,
\* client.table, a table method) is made in that invocation.
C4_NoIntegrationNoDelegateCall ==
    (Done /\ ~HadIntegration) =>
        /\ last.caught = Exc("ValueError", "Integration is not set for AirtableApp.")
        /\ last.credReads = 0
        /\ last.client = PyNone
        /\ last.calls = <<>>

C4_Witness ==
    /\ Done
    /\ ~HadIntegration
    /\ last.op = "get_record"
    /\ last.env.at = "data"
    /\ last.calls = <<>>

\* The delegate's data methods, and the data calls an invocation made.
DataMethods == {"bases", "tables", "get", "all", "create", "update", "delete",
                "batch_create", "batch_update", "batch_delete", "batch_upsert"}
DataCalls(calls) == {i \in DOMAIN calls : calls[i].fn \in DataMethods}

\* C5: list_records with options.formula a Formula object F makes the delegate
\* calls that list_records with options.formula the string to_formula_str(F)
\* makes, and table.all gets a string; a formula that is a string, and every
\* other option, reaches table.all unchanged.
C5_FormulaAsItsString ==
    (Done /\ last.op = "list_records" /\ HadIntegration /\ last.env.at # "credentials") =>
        LET a == last.args
            o == a.options
            all == last.calls[Len(last.calls)]
        IN  /\ all.fn = "all"
            /\ DOMAIN all.kw = DOMAIN o
            /\ \A k \in DOMAIN o : (k # "formula" \/ o[k].py = "str") => all.kw[k] = o[k]
            /\ ("formula" \in DOMAIN o /\ IsFormula(o["formula"])) =>
                  LET s == [o EXCEPT !["formula"] = PyStr(to_formula_str(@))]
                  IN  /\ all.kw["formula"].py = "str"
                      /\ last.calls = list_records(last.before, last.creds, last.env,
                                                   a.base_id, a.table_id_or_name, s).calls

C5_Witness ==
    /\ Done
    /\ last.op = "list_records"
    /\ "formula" \in DOMAIN last.args.options
    /\ last.args.options["formula"] = AND(<<EQ(Field("Name"), PyStr("Test")), Formula("{Done}")>>)
    /\ "view" \in DOMAIN last.args.options
    /\ Len(last.calls) = 2
    /\ last.calls[2].kw["formula"] = PyStr("AND({Name}='Test', {Done})")

\* C7: when a handle is obtained and the delegate's call returns, the operation
\* returns the delegate's result itself, which is not a string; an operation
\* returns a string only when an exception was caught.
C7_ResultPassedThrough ==
    /\ DelegateReturned => (last.ret.py # "str" /\ last.ret = last.env.result)
    /\ (Done /\ last.ret.py = "str") => last.caught # NoExc

C7_Witness ==
    /\ DelegateReturned
    /\ last.op = "create_record"
    /\ last.args.fields = [Name |-> "Test", Status |-> "Todo"]
    /\ last.ret = RecordDict

\* The identifiers the caller passed to the invocation.
IdsPassed ==
    {last.args[k] : k \in DOMAIN last.args \cap {"base_id", "table_id_or_name", "record_id"}}
Verbs == {"listing", "getting", "creating", "updating", "deleting", "batch creating",
          "batch updating", "batch deleting", "batch upserting"}
Entities == {"bases", "tables", "record", "records"}

\* C8 as stated: the string returned on failure is
\* "Error <verb>ing <entity> '<id>' in '<container>': <ExceptionKind> - <message>"
\* with <id> and <container> identifiers the caller passed, and delete_record's
\* begins with "Error deleting record '<record_id>'".
C8_ErrorStringTemplate ==
    (Done /\ last.caught # NoExc) =>
        /\ last.ret.py = "str"
        /\ \E verb \in Verbs, entity \in Entities, id \in IdsPassed, container \in IdsPassed :
              last.ret.val = "Error " \o verb \o " " \o entity \o " '" \o id \o "' in '"
                             \o container \o "': " \o last.caught.kind \o " - "
                             \o last.caught.msg
        /\ last.op = "delete_record" =>
              StartsWith(last.ret.val, "Error deleting record '" \o last.args.record_id \o "'")

\* The words each operation's error string begins with.
Phrase(op) ==
    CASE op = "list_bases" -> "Error listing bases"
      [] op = "list_tables" -> "Error listing tables for base"
      [] op = "get_record" -> "Error getting record"
      [] op = "list_records" -> "Error listing records from"
      [] op = "create_record" -> "Error creating record in"
      [] op = "update_record" -> "Error updating record"
      [] op = "delete_record" -> "Error deleting record"
      [] op = "batch_create_records" -> "Error batch creating records in"
      [] op = "batch_update_records" -> "Error batch updating records in"
      [] op = "batch_delete_records" -> "Error batch deleting records from"
      [] op = "batch_upsert_records" -> "Error batch upserting records in"

\* C8 as amended: the string returned on failure begins with the operation's
\* own "Error <verb>ing <entity>" words, names in single quotes the identifiers
\* the caller passed, in the order record id, table, base (the table followed
\* by "in '<base>'"; list_bases names none, list_tables only the base), and
\* ends with ": <ExceptionKind> - <message>" (list_bases: the words, then
\* ": <ExceptionKind> - <message>"); delete_record's begins with
\* "Error deleting record '<record_id>'".
C8_ErrorStringShape ==
    (Done /\ last.caught # NoExc) =>
        LET a == last.args
            v == last.ret.val
            tail == last.caught.kind \o " - " \o last.caught.msg
        IN  /\ last.ret.py = "str"
            /\ StartsWith(v, Phrase(last.op))
            /\ EndsWith(v, ": " \o tail)
            /\ "base_id" \notin DOMAIN a => v = Phrase(last.op) \o ": " \o tail
            /\ "base_id" \in DOMAIN a => EndsWith(v, " '" \o a.base_id \o "': " \o tail)
            /\ "table_id_or_name" \in DOMAIN a =>
                  EndsWith(v, " '" \o a.table_id_or_name \o "' in '" \o a.base_id
                              \o "': " \o tail)
            /\ "record_id" \in DOMAIN a =>
                  StartsWith(v, Phrase(last.op) \o " '" \o a.record_id \o "' ")
            /\ last.op = "delete_record" =>
                  StartsWith(v, "Error deleting record '" \o a.record_id \o "'")

C8_Witness ==
    /\ Done
    /\ last.op = "delete_record"
    /\ last.args.record_id = "recNotExist"
    /\ last.caught = Exc("HTTPError", "404 Not Found")
    /\ last.ret = PyStr("Error deleting record 'recNotExist' from 'Tasks' in 'baseX': "
                        \o "HTTPError - 404 Not Found")

\* C9: an invocation makes at most one call to a data method of the delegate,
\* after resolving the base or table with the caller's identifiers, and the
\* call carries the caller's record id, fields, records, record ids,
\* key_fields and options as they were given: a batch operation hands the
\* whole sequence, in its order, to one call; only list_records' formula
\* option may differ from what the caller passed.
C9_SingleVerbatimCall ==
    Done =>
        LET a == last.args
            n == Len(last.calls)
            d == last.calls[n]
        IN  /\ Cardinality(DataCalls(last.calls)) <= 1
            /\ n > 0 =>
                  /\ DataCalls(last.calls) = {n}
                  /\ n = IF last.op = "list_bases" THEN 1 ELSE 2
                  /\ last.op = "list_tables" => last.calls[1] = Call("base", <<a.base_id>>, NoOptions)
                  /\ "table_id_or_name" \in DOMAIN a =>
                        last.calls[1] = Call("table", <<a.base_id, a.table_id_or_name>>, NoOptions)
                  /\ last.op = "get_record" => d = Call("get", <<a.record_id>>, a.options)
                  /\ last.op = "list_records" =>
                        /\ d.fn = "all" /\ d.pos = <<>> /\ DOMAIN d.kw = DOMAIN a.options
                        /\ \A k \in DOMAIN a.options \ {"formula"} : d.kw[k] = a.options[k]
                  /\ last.op = "create_record" =>
                        d = Call("create", <<>>, ("fields" :> PyDict(a.fields)) @@ a.options)
                  /\ last.op = "update_record" =>
                        d = Call("update", <<a.record_id>>,
                                 ("fields" :> PyDict(a.fields)) @@ a.options)
                  /\ last.op = "delete_record" => d = Call("delete", <<a.record_id>>, NoOptions)
                  /\ last.op = "batch_create_records" =>
                        d = Call("batch_create", <<a.records>>, a.options)
                  /\ last.op = "batch_update_records" =>
                        d = Call("batch_update", <<a.records>>, a.options)
                  /\ last.op = "batch_delete_records" =>
                        d = Call("batch_delete", <<a.record_ids>>, NoOptions)
                  /\ last.op = "batch_upsert_records" =>
                        d = Call("batch_upsert", <<a.records>>,
                                 ("key_fields" :> PyList(a.key_fields)) @@ a.options)

C9_Witness ==
    /\ Done
    /\ last.op = "batch_create_records"
    /\ Len(last.args.records) = MaxBatch
    /\ last.args.records[1] # last.args.records[2]
    /\ Len(last.calls) = 2
    /\ last.calls[2].pos = <<last.args.records>>

\* The key _get_client hands to Api: the first of api_key, apiKey, API_KEY
\* that holds a non-empty value; failing that, what API_KEY holds.
KeyRead(creds) ==
    IF "api_key" \in DOMAIN creds /\ creds["api_key"] # "" THEN PyStr(creds["api_key"])
    ELSE IF "apiKey" \in DOMAIN creds /\ creds["apiKey"] # "" THEN PyStr(creds["apiKey"])
    ELSE IF "API_KEY" \in DOMAIN creds THEN PyStr(creds["API_KEY"])
    ELSE PyNone

\* The threads whose _get_client has run, and those whose operation has ended.
PastClient == {t \in Threads : threads[t].pc \in {"calling", "done"}}
Ended == {t \in Threads : threads[t].pc = "done"}

\* What the invocations, ended or under way, leave of the adapter: its name
\* and its integration, as every one of them found them, and no other
\* attribute (no handle kept).
AdapterUntouched ==
    /\ DOMAIN app = {"name", "integration"}
    /\ app.name = "airtable"
    /\ \A t \in PastClient : threads[t].before = app /\ threads[t].self = app

\* C10 as stated: after any sequence or interleaving of the operations the
\* adapter's name and integration are as they were and no handle is kept;
\* each invocation reads the credentials exactly once and builds its own
\* handle from them.
C10_ReadsOnceAlways ==
    /\ AdapterUntouched
    /\ \A t \in Ended :
          /\ threads[t].credReads = 1
          /\ threads[t].client = Api(KeyRead(threads[t].creds))

\* C10 as amended: after any sequence or interleaving of the operations,
\* succeeding or failing, the adapter's name and integration are as they
\* were and no handle is kept; each invocation reads the credentials exactly
\* once when an integration is set and not at all otherwise, and it builds
\* its own handle, from the credentials as they are when it reads them,
\* exactly when that read returns; what it calls and returns is what the
\* operation gives on its arguments, those credentials and the delegate's
\* answer, whatever the other invocations did before or meanwhile.
C10_Stateless ==
    /\ AdapterUntouched
    /\ \A t \in PastClient :
          LET f == threads[t]
              integration == Truthy(f.before.integration)
          IN  /\ f.credReads = IF integration THEN 1 ELSE 0
              /\ f.client.py = "Api" <=> (integration /\ f.env.at # "credentials")
              /\ f.client.py = "Api" => f.client = Api(KeyRead(f.creds))
    /\ \A t \in Ended :
          LET f == threads[t]
              alone == Run(f.op, AirtableApp(f.before.integration), f.creds, f.env, f.args)
          IN  /\ f.calls = alone.calls
              /\ f.ret = alone.ret
              /\ f.raised = NoExc

\* Two invocations overlap: t1 has read the credentials and not yet called
\* the delegate, the credentials have changed since, and t2, entered after
\* that, has ended with a handle built from the new ones.
C10_Witness ==
    /\ app = AirtableApp(ApiKeyIntegration)
    /\ threads["t1"].pc = "calling"
    /\ threads["t1"].op = "batch_upsert_records"
    /\ threads["t1"].creds = [api_key |-> "patA"]
    /\ threads["t1"].client = Api(PyStr("patA"))
    /\ threads["t2"].pc = "done"
    /\ threads["t2"].op = "update_record"
    /\ threads["t2"].creds = [apiKey |-> "patB", API_KEY |-> "patC"]
    /\ threads["t2"].client = Api(PyStr("patB"))
    /\ threads["t2"].ret.py = "dict"
    /\ store = [apiKey |-> "patB", API_KEY |-> "patC"]

====
